---- MODULE Spec2Model ----
(***************************************************************************)
(* Model of the item/recipe backend: the two routers, the repositories     *)
(* they construct at import time, the local tabular files and the remote   *)
(* sheet fetcher.                                                           *)
(*                                                                         *)
(* Representation.  A DataFrame is the sequence of its rows, a row is a    *)
(* record of its cells.  An identifier (UUID) is a number; its text forms  *)
(* are records [u, form]: str(UUID) always yields the form "canon", and    *)
(* UUID(text) accepts "canon" and "upper" and raises ValueError on         *)
(* "garbage".  A comma-separated text field is the sequence of the pieces  *)
(* between its commas.  A missing cell (None / NaN) is the cell NaN.       *)
(* The columns that every operation copies verbatim (description, type,    *)
(* rarity, price, ... / result_quantity, crafting_time, ...) are           *)
(* represented by the column name.                                         *)
(***************************************************************************)
EXTENDS Integers, Sequences, FiniteSets, TLC

\* ------------------------------------------------------------------ bounds
NumUUIDs == 3
MaxRows == 2
NumThreads == 2

UUIDs == 1..NumUUIDs

\* ------------------------------------------------------- identifiers, text
\* str(uuid): the canonical lower-case hyphenated text
str(u) == [u |-> u, form |-> "canon"]

\* a piece of text that uuid.UUID() accepts but that is not str() of it
Upper(u) == [u |-> u, form |-> "upper"]

\* a piece of text surrounded by blanks; x.strip() removes them
Padded(u) == [u |-> u, form |-> "padded"]

\* a piece of text that is no identifier (also the empty piece of "")
Garbage == [u |-> 0, form |-> "garbage"]

\* x.strip()
strip(t) == IF t.form = "padded" THEN str(t.u) ELSE t

\* UUID(text) raises ValueError
UUIDRaises(t) == t.form \notin {"canon", "upper"}

\* UUID(text), defined when it does not raise
UUID(t) == t.u

\* Python None as a field of an entity; None / NaN as a cell of a table
None == "None"
NaN == "NaN"

\* pd.isna(cell)
isna(cell) == cell = NaN

\* the cell a DataFrame holds for a value of a dict (None is a missing cell)
Cell(v) == IF v = None THEN NaN ELSE v

\* "no entity" results (Optional[...] returning None), and a raised error
Absent == [absent |-> TRUE]
Raised == [raised |-> "ValueError"]

\* --------------------------------------------------------------- the files
NoFile == [exists |-> FALSE, rows |-> <<>>]
FileOf(rows) == [exists |-> TRUE, rows |-> rows]

\* ------------------------------------------------------------------ items
\* ItemCreate bodies the handlers receive
ItemCreate == [name : {"sword"}, logo_url : {None, ""}]

\* a row of the items table from a request body and the text of its id
ItemRow(str_id, item) ==
    [id |-> str_id, name |-> item.name, logo_url |-> Cell(item.logo_url)]

\* Item(**item_dict) as create and update return it
ItemOf(id, item) == [id |-> id, name |-> item.name, logo_url |-> item.logo_url]

\* ItemOfRow without the NaN handling of the optional fields
ItemOfRow_keeping_nan(row) ==
    [id |-> UUID(row.id), name |-> row.name, logo_url |-> row.logo_url]

\* Item(**row_dict) as the getters build it from a row
ItemOfRow(row) ==
    [id |-> UUID(row.id), name |-> row.name,
     logo_url |-> IF isna(row.logo_url) THEN None ELSE row.logo_url]

\* df['id'].values
IdColumn(df) == {df[i].id : i \in 1..Len(df)}

\* df[df['id'] == str_id]
RowsWithId(df, str_id) == SelectSeq(df, LAMBDA r : r.id = str_id)

\* df[df['id'] != str_id]
RowsWithoutId(df, str_id) == SelectSeq(df, LAMBDA r : r.id # str_id)

\* uuid4(): a random 122-bit identifier, taken to differ from every
\* identifier the table holds
\* uuid4 returning an identifier the table may already hold
uuid4_colliding(df) == UUIDs

uuid4(df) == {u \in UUIDs : str(u) \notin IdColumn(df)}

\* df.loc[df['id'] == str_id] = pd.Series(d): pandas aligns a Series that is
\* assigned through a boolean row mask on the ROW labels of the selected
\* rows (the Series here is labelled by column names, so nothing aligns),
\* and then finds one value for the many columns of a mixed-dtype frame:
\* "Must have equal len keys and value when setting with an iterable".
\* The frame is not modified.  With no selected row nothing is assigned.
loc_setitem(df, str_id, row) ==
    IF str_id \in IdColumn(df) THEN [df |-> df, raised |-> TRUE]
    ELSE [df |-> df, raised |-> FALSE]

\* ItemRepository._save_data: the whole table replaces the local file
Item_save_data(df) == FileOf(df)

Item_get_all(df) == [i \in 1..Len(df) |-> ItemOfRow(df[i])]

Item_get_by_id(df, item_id) ==
    LET filtered == RowsWithId(df, str(item_id))
    IN  IF filtered = <<>> THEN Absent ELSE ItemOfRow(filtered[1])

\* Item_get_by_ids looking for the first of the ids only
Item_get_by_ids_first_only(df, item_ids) ==
    LET filtered == SelectSeq(df, LAMBDA r : r.id = str(item_ids[1]))
    IN  [i \in 1..Len(filtered) |-> ItemOfRow(filtered[i])]

Item_get_by_ids(df, item_ids) ==
    LET str_ids == {str(item_ids[i]) : i \in 1..Len(item_ids)}
        filtered == SelectSeq(df, LAMBDA r : r.id \in str_ids)
    IN  [i \in 1..Len(filtered) |-> ItemOfRow(filtered[i])]

Item_create(df, file, item, new_id) ==
    LET new_df == Append(df, ItemRow(str(new_id), item))
    IN  [df |-> new_df, file |-> Item_save_data(new_df),
         ret |-> ItemOf(new_id, item)]

Item_update(df, file, item_id, item) ==
    LET str_id == str(item_id)
        set == loc_setitem(df, str_id, ItemRow(str_id, item))
    IN  IF str_id \notin IdColumn(df)
        THEN [df |-> df, file |-> file, ret |-> Absent]
        ELSE IF set.raised
        THEN [df |-> set.df, file |-> file, ret |-> Raised]
        ELSE [df |-> set.df, file |-> Item_save_data(set.df),
              ret |-> ItemOf(item_id, item)]

\* Item_delete, persisting also when the id is absent
Item_delete_saving_always(df, file, item_id) ==
    LET str_id == str(item_id)
        new_df == RowsWithoutId(df, str_id)
    IN  [df |-> new_df, file |-> Item_save_data(new_df),
         ret |-> str_id \in IdColumn(df)]

Item_delete(df, file, item_id) ==
    LET str_id == str(item_id)
        new_df == RowsWithoutId(df, str_id)
    IN  IF str_id \notin IdColumn(df)
        THEN [df |-> df, file |-> file, ret |-> FALSE]
        ELSE [df |-> new_df, file |-> Item_save_data(new_df), ret |-> TRUE]

\* ----------------------------------------------------------------- recipes
\* the required_items texts the request bodies and the tables carry
RequiredTexts ==
    { <<Padded(1), Upper(2)>>, <<str(NumUUIDs)>>, <<str(1), Garbage>> }

\* RecipeCreate bodies the handlers receive (result_item_id is a UUID)
RecipeCreate == [result_item_id : {1, NumUUIDs}, required_items : RequiredTexts]

\* a row of the recipes table from a request body and the text of its id
RecipeRow(str_id, recipe) ==
    [id |-> str_id, result_item_id |-> str(recipe.result_item_id),
     required_items |-> recipe.required_items]

\* Recipe(**recipe_dict) as create and update return it
RecipeOf(id, recipe) ==
    [id |-> id, result_item_id |-> recipe.result_item_id,
     required_items |-> recipe.required_items]

\* Recipe(**row_dict) as the getters build it from a row
RecipeOfRow(row) ==
    [id |-> UUID(row.id), result_item_id |-> UUID(row.result_item_id),
     required_items |-> row.required_items]

\* recipe.required_items.split(',') followed by x.strip() on every piece
SplitStrip(text) == [i \in 1..Len(text) |-> strip(text[i])]

\* [UUID(x.strip()) for x in ...] raises ValueError
RequiredRaises(text) ==
    \E i \in 1..Len(text) : UUIDRaises(SplitStrip(text)[i])

\* [UUID(x.strip()) for x in ...], defined when it does not raise
RequiredIds(text) == [i \in 1..Len(text) |-> UUID(SplitStrip(text)[i])]

\* Recipe_save_data writing the newest row only
Recipe_save_data_last_row(df) ==
    FileOf(IF df = <<>> THEN <<>> ELSE <<df[Len(df)]>>)

\* RecipeRepository._save_data: the whole table replaces the local file
Recipe_save_data(df) == FileOf(df)

Recipe_get_all(df) == [i \in 1..Len(df) |-> RecipeOfRow(df[i])]

Recipe_get_by_id(df, recipe_id) ==
    LET filtered == RowsWithId(df, str(recipe_id))
    IN  IF filtered = <<>> THEN Absent ELSE RecipeOfRow(filtered[1])

\* item_df is the table of the ItemRepository the RecipeRepository holds
Recipe_get_by_id_with_details(df, item_df, recipe_id) ==
    LET recipe == Recipe_get_by_id(df, recipe_id)
    IN  IF recipe = Absent THEN Absent
        ELSE IF RequiredRaises(recipe.required_items) THEN Raised
        ELSE [id |-> recipe.id,
              result_item_id |-> recipe.result_item_id,
              required_items |-> recipe.required_items,
              result_item |-> Item_get_by_id(item_df, recipe.result_item_id),
              required_item_details |->
                  Item_get_by_ids(item_df, RequiredIds(recipe.required_items))]

\* the loop of get_all_with_details over the first n recipes of get_all();
\* the result is the list built so far, or the error that ended the loop
RECURSIVE DetailedUpTo(_, _, _)
DetailedUpTo(df, item_df, n) ==
    IF n = 0 THEN [raised |-> FALSE, list |-> <<>>]
    ELSE LET before == DetailedUpTo(df, item_df, n - 1)
             detailed == Recipe_get_by_id_with_details(
                             df, item_df, Recipe_get_all(df)[n].id)
         IN  IF before.raised \/ detailed = Raised
             THEN [raised |-> TRUE, list |-> <<>>]
             ELSE IF detailed = Absent THEN before
             ELSE [raised |-> FALSE, list |-> Append(before.list, detailed)]

\* get_all_with_details looking at the first recipe only
Recipe_get_all_with_details_first_only(df, item_df) ==
    DetailedUpTo(df, item_df, IF df = <<>> THEN 0 ELSE 1)

Recipe_get_all_with_details(df, item_df) == DetailedUpTo(df, item_df, Len(df))

Recipe_create(df, file, recipe, new_id) ==
    LET new_df == Append(df, RecipeRow(str(new_id), recipe))
    IN  [df |-> new_df, file |-> Recipe_save_data(new_df),
         ret |-> RecipeOf(new_id, recipe)]

Recipe_update(df, file, recipe_id, recipe) ==
    LET str_id == str(recipe_id)
        set == loc_setitem(df, str_id, RecipeRow(str_id, recipe))
    IN  IF str_id \notin IdColumn(df)
        THEN [df |-> df, file |-> file, ret |-> Absent]
        ELSE IF set.raised
        THEN [df |-> set.df, file |-> file, ret |-> Raised]
        ELSE [df |-> set.df, file |-> Recipe_save_data(set.df),
              ret |-> RecipeOf(recipe_id, recipe)]

Recipe_delete(df, file, recipe_id) ==
    LET str_id == str(recipe_id)
        new_df == RowsWithoutId(df, str_id)
    IN  IF str_id \notin IdColumn(df)
        THEN [df |-> df, file |-> file, ret |-> FALSE]
        ELSE [df |-> new_df, file |-> Recipe_save_data(new_df), ret |-> TRUE]

\* ------------------------------------------------------- source resolution
\* what get_items_data() / get_recipes_data() hands to _load_data: it
\* raised, it returned None, or it returned a table (possibly empty)
FetchRaise == [kind |-> "raise", rows |-> <<>>]
FetchNone == [kind |-> "none", rows |-> <<>>]
FetchTable(rows) == [kind |-> "table", rows |-> rows]

\* the data of the remote sheet and of the local files at start-up
RemoteItems ==
    << [id |-> str(2), name |-> "shield", logo_url |-> NaN],
       [id |-> str(1), name |-> "sword", logo_url |-> "http://logo"] >>
LocalItems == << [id |-> str(1), name |-> "sword", logo_url |-> NaN] >>
RemoteRecipes ==
    << [id |-> str(2), result_item_id |-> str(2),
        required_items |-> <<str(1)>>],
       [id |-> str(NumUUIDs), result_item_id |-> str(1),
        required_items |-> <<str(1), Garbage>>] >>
LocalRecipes ==
    << [id |-> str(1), result_item_id |-> str(NumUUIDs),
        required_items |-> <<Padded(1), Upper(2)>>] >>

ItemFetchResults ==
    {FetchRaise, FetchNone, FetchTable(<<>>), FetchTable(RemoteItems)}
RecipeFetchResults ==
    {FetchRaise, FetchNone, FetchTable(<<>>), FetchTable(RemoteRecipes)}

\* Item_load_data preferring the local file to the remote table
Item_load_data_local_first(use_gs, fetched, file) ==
    IF file.exists
    THEN [df |-> file.rows, source |-> "local"]
    ELSE IF use_gs /\ fetched.kind = "table" /\ fetched.rows # <<>>
    THEN [df |-> fetched.rows, source |-> "remote"]
    ELSE [df |-> <<>>, source |-> "empty"]

\* ItemRepository._load_data: the table, and where it came from
Item_load_data(use_gs, fetched, file) ==
    IF use_gs /\ fetched.kind = "table" /\ fetched.rows # <<>>
    THEN [df |-> fetched.rows, source |-> "remote"]
    ELSE IF file.exists
    THEN [df |-> file.rows, source |-> "local"]
    ELSE [df |-> <<>>, source |-> "empty"]

\* RecipeRepository._load_data
Recipe_load_data(use_gs, fetched, file) ==
    IF use_gs /\ fetched.kind = "table" /\ fetched.rows # <<>>
    THEN [df |-> fetched.rows, source |-> "remote"]
    ELSE IF file.exists
    THEN [df |-> file.rows, source |-> "local"]
    ELSE [df |-> <<>>, source |-> "empty"]

\* ---------------------------------------------------------------- handlers
\* HTTP outcomes; an exception no handler catches is a 500
OK == "200"
BadRequest == "400"
NotFound == "404"
ServerError == "500"

\* routers/items.py: each result is the status, the body, and the table and
\* file of the items router's repository after the call
get_all_items(df, file) ==
    [status |-> OK, body |-> Item_get_all(df), df |-> df, file |-> file]

get_item(df, file, item_id) ==
    LET item == Item_get_by_id(df, item_id)
    IN  [status |-> IF item = Absent THEN NotFound ELSE OK,
         body |-> item, df |-> df, file |-> file]

create_item(df, file, item, new_id) ==
    LET r == Item_create(df, file, item, new_id)
    IN  [status |-> OK, body |-> r.ret, df |-> r.df, file |-> r.file]

update_item(df, file, item_id, item) ==
    LET r == Item_update(df, file, item_id, item)
    IN  [status |-> IF r.ret = Raised THEN ServerError
                    ELSE IF r.ret = Absent THEN NotFound ELSE OK,
         body |-> r.ret, df |-> r.df, file |-> r.file]

delete_item(df, file, item_id) ==
    LET r == Item_delete(df, file, item_id)
    IN  [status |-> IF r.ret THEN OK ELSE NotFound,
         body |-> Absent, df |-> r.df, file |-> r.file]

\* routers/recipes.py: item_df is the table of the recipes router's own
\* ItemRepository; df and file are the recipe repository's
get_all_recipes(df, file) ==
    [status |-> OK, body |-> Recipe_get_all(df), df |-> df, file |-> file]

get_all_recipes_detailed(df, file, item_df) ==
    LET r == Recipe_get_all_with_details(df, item_df)
    IN  [status |-> IF r.raised THEN ServerError ELSE OK,
         body |-> r.list, df |-> df, file |-> file]

get_recipe(df, file, recipe_id) ==
    LET recipe == Recipe_get_by_id(df, recipe_id)
    IN  [status |-> IF recipe = Absent THEN NotFound ELSE OK,
         body |-> recipe, df |-> df, file |-> file]

get_recipe_detailed(df, file, item_df, recipe_id) ==
    LET recipe == Recipe_get_by_id_with_details(df, item_df, recipe_id)
    IN  [status |-> IF recipe = Raised THEN ServerError
                    ELSE IF recipe = Absent THEN NotFound ELSE OK,
         body |-> recipe, df |-> df, file |-> file]

\* verify_items checking the result item only
verify_items_result_only(item_df, recipe) ==
    IF Item_get_by_id(item_df, recipe.result_item_id) = Absent
    THEN BadRequest
    ELSE IF RequiredRaises(recipe.required_items) THEN ServerError
    ELSE OK

\* the validation both create_recipe and update_recipe start with: the
\* status it ends the request with, or OK when the request goes on
verify_items(item_df, recipe) ==
    IF Item_get_by_id(item_df, recipe.result_item_id) = Absent
    THEN BadRequest
    ELSE IF RequiredRaises(recipe.required_items) THEN ServerError
    ELSE IF \E i \in 1..Len(recipe.required_items) :
               Item_get_by_id(item_df, RequiredIds(recipe.required_items)[i])
                   = Absent
    THEN BadRequest
    ELSE OK

\* invoked: whether the repository's create / update was called
create_recipe(df, file, item_df, recipe, new_id) ==
    LET verdict == verify_items(item_df, recipe)
        r == Recipe_create(df, file, recipe, new_id)
    IN  IF verdict # OK
        THEN [status |-> verdict, body |-> Absent, df |-> df, file |-> file,
              invoked |-> FALSE]
        ELSE [status |-> OK, body |-> r.ret, df |-> r.df, file |-> r.file,
              invoked |-> TRUE]

update_recipe(df, file, item_df, recipe_id, recipe) ==
    LET verdict == verify_items(item_df, recipe)
        r == Recipe_update(df, file, recipe_id, recipe)
    IN  IF verdict # OK
        THEN [status |-> verdict, body |-> Absent, df |-> df, file |-> file,
              invoked |-> FALSE]
        ELSE [status |-> IF r.ret = Raised THEN ServerError
                         ELSE IF r.ret = Absent THEN NotFound ELSE OK,
              body |-> r.ret, df |-> r.df, file |-> r.file,
              invoked |-> TRUE]

delete_recipe(df, file, recipe_id) ==
    LET r == Recipe_delete(df, file, recipe_id)
    IN  [status |-> IF r.ret THEN OK ELSE NotFound,
         body |-> Absent, df |-> r.df, file |-> r.file]

\* ------------------------------------------------------ GoogleSheetsService
\* the URL formats read_sheet_as_csv tries, in list order
NumUrlFormats == 3

\* alternative_names of get_sheet_data
alternative_names(sheet_name) ==
    IF sheet_name = "Items" THEN <<"ItemsRecipies", "Sheet1">>
    ELSE IF sheet_name = "Recipes" THEN <<"ItemsRecipies", "Sheet2">>
    ELSE <<>>

\* the names get_sheet_data hands to read_sheet_as_csv, in call order
SheetNames(sheet_name) == <<sheet_name>> \o alternative_names(sheet_name)

\* a row of a sheet with no cell filled in
BlankRow == [id |-> [u |-> 0, form |-> "nan"], name |-> NaN, logo_url |-> NaN]

\* df.dropna(how='all'): the rows with some cell filled in
dropna(rows) == SelectSeq(rows, LAMBDA r : r # BlankRow)

\* what requests.get can meet: an exception (timeout, no connection), or a
\* response with a status and a body; a body is blank, an HTML page, text
\* read_csv cannot parse, or delimited text with the rows it parses to
Bodies ==
    {[kind |-> "blank", rows |-> <<>>],
     [kind |-> "html", rows |-> <<>>],
     [kind |-> "unparsable", rows |-> <<>>],
     [kind |-> "csv", rows |-> <<BlankRow>>],
     [kind |-> "csv", rows |-> <<BlankRow>> \o LocalItems],
     [kind |-> "csv", rows |-> RemoteItems]}
Responses ==
    {[raises |-> TRUE, status_code |-> 0,
      body |-> [kind |-> "blank", rows |-> <<>>]]}
    \cup [raises : {FALSE}, status_code : {200, 404}, body : Bodies]

\* TryUrlFormat without the check of the status code
TryUrlFormat_any_status(response) ==
    IF response.raises THEN FetchNone
    ELSE IF response.body.kind \in {"blank", "html", "unparsable"}
    THEN FetchNone
    ELSE IF dropna(response.body.rows) = <<>> THEN FetchNone
    ELSE FetchTable(dropna(response.body.rows))

\* one turn of the loop of read_sheet_as_csv on the response to its GET:
\* the table it returns, or FetchNone when it goes on with the next URL
TryUrlFormat(response) ==
    IF response.raises THEN FetchNone
    ELSE IF response.status_code # 200 THEN FetchNone
    ELSE IF response.body.kind = "blank" THEN FetchNone
    ELSE IF response.body.kind = "html" THEN FetchNone
    ELSE IF response.body.kind = "unparsable" THEN FetchNone
    ELSE IF dropna(response.body.rows) = <<>> THEN FetchNone
    ELSE FetchTable(dropna(response.body.rows))

\* ------------------------------------------------------------------- state
VARIABLES
    use_google_sheets,  \* the use_google_sheets argument of the constructors
    pc,                 \* how far the imports of main.py have got
    items_df,           \* routers/items.py: item_repo.df
    recipe_items_df,    \* routers/recipes.py: item_repo.df
    recipes_df,         \* routers/recipes.py: recipe_repo.df
    items_xlsx,         \* the local file "items.xlsx"
    recipes_xlsx,       \* the local file "recipes.xlsx"
    source,             \* per repository: the branch _load_data took
    last,               \* the last call: its name and its outcome
    f_pc,               \* get_sheet_data: "idle", "reading" or "returned"
    f_name,             \* get_sheet_data: its sheet_name argument
    f_call,             \* which of SheetNames read_sheet_as_csv is reading
    f_url,              \* read_sheet_as_csv: the index i of its loop
    f_ret,              \* what get_sheet_data returned
    f_log,              \* the GETs made so far: <<sheet name, URL format>>
    f_last,             \* the response to the last GET
    f_passed,           \* how many responses so far passed every check
    serialized,         \* the host runs each call to its end before the next
    t_pc,               \* per thread: the statement of the call it is at
    t_call,             \* per thread: the call under way and its arguments
    t_local,            \* per thread: the table its statement has computed
    acked,              \* the ids of the creates and deletes that returned
    drawn,              \* the identifiers in use so far: uuid4() repeats none
    seen                \* the ids of the rows that get_all calls have returned

repo_vars == <<use_google_sheets, pc, items_df, recipe_items_df, recipes_df,
               items_xlsx, recipes_xlsx, source, last>>
fetch_vars == <<f_pc, f_name, f_call, f_url, f_ret, f_log, f_last, f_passed>>
thread_vars == <<serialized, t_pc, t_call, t_local, acked, drawn, seen>>
vars == <<repo_vars, fetch_vars, thread_vars>>

\* a response passes every check: status 200, a body that is not blank, no
\* HTML page and parses, and a table that is not empty after the cleanup
PassesEveryCheck(response) ==
    /\ ~response.raises
    /\ response.status_code = 200
    /\ response.body.kind = "csv"
    /\ \E i \in 1..Len(response.body.rows) : response.body.rows[i] # BlankRow

FetchPending == [kind |-> "pending", rows |-> <<>>]
NoResponse ==
    [raises |-> FALSE, status_code |-> 0,
     body |-> [kind |-> "blank", rows |-> <<>>]]

\* no get_sheet_data call is under way
FetchIdle ==
    /\ f_pc = "idle"
    /\ f_name = "none"
    /\ f_call = 0
    /\ f_url = 0
    /\ f_ret = FetchPending
    /\ f_log = <<>>
    /\ f_last = NoResponse
    /\ f_passed = 0

\* the threads of the host that call into one ItemRepository
Threads == 1..NumThreads

NoCall ==
    [op |-> "none", id |-> 0, item |-> [name |-> "sword", logo_url |-> None]]

\* no call is under way on any thread and none has returned yet
ThreadsIdle ==
    /\ t_pc = [t \in Threads |-> "idle"]
    /\ t_call = [t \in Threads |-> NoCall]
    /\ t_local = [t \in Threads |-> <<>>]
    /\ acked = [created |-> {}, deleted |-> {}]
    /\ seen = {}

Repositories == {"items.item_repo", "recipes.item_repo", "recipes.recipe_repo"}

\* how a fetch result is named in last.status
FetchLabel(fetched) ==
    IF fetched.kind # "table" THEN fetched.kind
    ELSE IF fetched.rows = <<>> THEN "empty" ELSE "table"

Init ==
    /\ use_google_sheets \in BOOLEAN
    /\ pc = "import_items"
    /\ items_df = <<>>
    /\ recipe_items_df = <<>>
    /\ recipes_df = <<>>
    /\ items_xlsx \in {NoFile, FileOf(LocalItems)}
    /\ recipes_xlsx \in {NoFile, FileOf(LocalRecipes)}
    /\ source = [r \in Repositories |-> "unresolved"]
    /\ last = [op |-> "start", status |-> "none"]
    /\ FetchIdle
    /\ serialized = TRUE
    /\ ThreadsIdle
    /\ drawn = {}

\* routers/items.py is imported: item_repo = ItemRepository(...)
ConstructItemsRouterRepo ==
    /\ pc = "import_items"
    /\ \E fetched \in ItemFetchResults :
         LET r == Item_load_data(use_google_sheets, fetched, items_xlsx)
         IN  /\ use_google_sheets \/ fetched = FetchNone
             /\ items_df' = r.df
             /\ source' = [source EXCEPT !["items.item_repo"] = r.source]
             /\ last' = [op |-> "ItemRepository",
                         status |-> IF use_google_sheets
                                    THEN FetchLabel(fetched) ELSE "disabled"]
    /\ pc' = "import_recipes"
    /\ UNCHANGED <<use_google_sheets, recipe_items_df, recipes_df,
                   items_xlsx, recipes_xlsx, fetch_vars, thread_vars>>

\* routers/recipes.py is imported: its own item_repo = ItemRepository(...)
ConstructRecipesRouterItemRepo ==
    /\ pc = "import_recipes"
    /\ \E fetched \in ItemFetchResults :
         LET r == Item_load_data(use_google_sheets, fetched, items_xlsx)
         IN  /\ use_google_sheets \/ fetched = FetchNone
             /\ recipe_items_df' = r.df
             /\ source' = [source EXCEPT !["recipes.item_repo"] = r.source]
             /\ last' = [op |-> "ItemRepository",
                         status |-> IF use_google_sheets
                                    THEN FetchLabel(fetched) ELSE "disabled"]
    /\ pc' = "import_recipes_2"
    /\ UNCHANGED <<use_google_sheets, items_df, recipes_df,
                   items_xlsx, recipes_xlsx, fetch_vars, thread_vars>>

\* ... and recipe_repo = RecipeRepository(item_repo=item_repo, ...)
ConstructRecipeRepo ==
    /\ pc = "import_recipes_2"
    /\ \E fetched \in RecipeFetchResults :
         LET r == Recipe_load_data(use_google_sheets, fetched, recipes_xlsx)
         IN  /\ use_google_sheets \/ fetched = FetchNone
             /\ recipes_df' = r.df
             /\ source' = [source EXCEPT !["recipes.recipe_repo"] = r.source]
             /\ last' = [op |-> "RecipeRepository",
                         status |-> IF use_google_sheets
                                    THEN FetchLabel(fetched) ELSE "disabled"]
    /\ pc' = "serving"
    /\ UNCHANGED <<use_google_sheets, items_df, recipe_items_df,
                   items_xlsx, recipes_xlsx, fetch_vars, thread_vars>>

\* a request to the items router ended with result r
ItemsRouterDone(op, r) ==
    /\ items_df' = r.df
    /\ items_xlsx' = r.file
    /\ last' = [op |-> op, status |-> r.status]
    /\ UNCHANGED <<use_google_sheets, pc, recipe_items_df, recipes_df,
                   recipes_xlsx, source, fetch_vars, thread_vars>>

\* a request to the recipes router ended with result r
RecipesRouterDone(op, r) ==
    /\ recipes_df' = r.df
    /\ recipes_xlsx' = r.file
    /\ last' = [op |-> op, status |-> r.status]
    /\ UNCHANGED <<use_google_sheets, pc, items_df, recipe_items_df,
                   items_xlsx, source, fetch_vars, thread_vars>>

GetAllItems ==
    /\ pc = "serving"
    /\ ItemsRouterDone("get_all_items", get_all_items(items_df, items_xlsx))

GetItem ==
    /\ pc = "serving"
    /\ \E item_id \in UUIDs :
         ItemsRouterDone("get_item", get_item(items_df, items_xlsx, item_id))

CreateItem ==
    /\ pc = "serving"
    /\ Len(items_df) < MaxRows
    /\ \E item \in ItemCreate, new_id \in uuid4(items_df) :
         ItemsRouterDone("create_item",
                         create_item(items_df, items_xlsx, item, new_id))

UpdateItem ==
    /\ pc = "serving"
    /\ \E item_id \in UUIDs, item \in ItemCreate :
         ItemsRouterDone("update_item",
                         update_item(items_df, items_xlsx, item_id, item))

DeleteItem ==
    /\ pc = "serving"
    /\ \E item_id \in UUIDs :
         ItemsRouterDone("delete_item",
                         delete_item(items_df, items_xlsx, item_id))

GetAllRecipes ==
    /\ pc = "serving"
    /\ RecipesRouterDone("get_all_recipes",
                         get_all_recipes(recipes_df, recipes_xlsx))

GetAllRecipesDetailed ==
    /\ pc = "serving"
    /\ RecipesRouterDone("get_all_recipes_detailed",
           get_all_recipes_detailed(recipes_df, recipes_xlsx, recipe_items_df))

GetRecipe ==
    /\ pc = "serving"
    /\ \E recipe_id \in UUIDs :
         RecipesRouterDone("get_recipe",
                           get_recipe(recipes_df, recipes_xlsx, recipe_id))

GetRecipeDetailed ==
    /\ pc = "serving"
    /\ \E recipe_id \in UUIDs :
         RecipesRouterDone("get_recipe_detailed",
             get_recipe_detailed(recipes_df, recipes_xlsx, recipe_items_df,
                                 recipe_id))

CreateRecipe ==
    /\ pc = "serving"
    /\ Len(recipes_df) < MaxRows
    /\ \E recipe \in RecipeCreate, new_id \in uuid4(recipes_df) :
         RecipesRouterDone("create_recipe",
             create_recipe(recipes_df, recipes_xlsx, recipe_items_df,
                           recipe, new_id))

UpdateRecipe ==
    /\ pc = "serving"
    /\ \E recipe_id \in UUIDs, recipe \in RecipeCreate :
         RecipesRouterDone("update_recipe",
             update_recipe(recipes_df, recipes_xlsx, recipe_items_df,
                           recipe_id, recipe))

DeleteRecipe ==
    /\ pc = "serving"
    /\ \E recipe_id \in UUIDs :
         RecipesRouterDone("delete_recipe",
                           delete_recipe(recipes_df, recipes_xlsx, recipe_id))

Next ==
    \/ ConstructItemsRouterRepo
    \/ ConstructRecipesRouterItemRepo
    \/ ConstructRecipeRepo
    \/ GetAllItems
    \/ GetItem
    \/ CreateItem
    \/ UpdateItem
    \/ DeleteItem
    \/ GetAllRecipes
    \/ GetAllRecipesDetailed
    \/ GetRecipe
    \/ GetRecipeDetailed
    \/ CreateRecipe
    \/ UpdateRecipe
    \/ DeleteRecipe

Spec == Init /\ [][Next]_vars

\* ------------------------------------------- the fetcher, one GET at a time
\* the state of the repositories while a fetch is looked at on its own
InitFetch ==
    /\ use_google_sheets \in BOOLEAN
    /\ pc = "import_items"
    /\ items_df = <<>>
    /\ recipe_items_df = <<>>
    /\ recipes_df = <<>>
    /\ items_xlsx = NoFile
    /\ recipes_xlsx = NoFile
    /\ source = [r \in Repositories |-> "unresolved"]
    /\ last = [op |-> "start", status |-> "none"]
    /\ FetchIdle
    /\ serialized = TRUE
    /\ ThreadsIdle
    /\ drawn = {}

\* GetSheetData, called with remote fetching switched off too
GetSheetData_ignoring_flag ==
    /\ f_pc = "idle"
    /\ \E sheet_name \in {"Items", "Recipes"} : f_name' = sheet_name
    /\ f_pc' = "reading"
    /\ f_call' = 1
    /\ f_url' = 1
    /\ UNCHANGED <<f_ret, f_log, f_last, f_passed, repo_vars, thread_vars>>

\* get_items_data() / get_recipes_data(), which _load_data calls only with
\* use_google_sheets set: get_sheet_data(sheet_name) starts with
\* read_sheet_as_csv(sheet_name) and its first URL format
GetSheetData ==
    /\ use_google_sheets
    /\ f_pc = "idle"
    /\ \E sheet_name \in {"Items", "Recipes"} : f_name' = sheet_name
    /\ f_pc' = "reading"
    /\ f_call' = 1
    /\ f_url' = 1
    /\ UNCHANGED <<f_ret, f_log, f_last, f_passed, repo_vars, thread_vars>>

\* one turn of the loop of read_sheet_as_csv, and what get_sheet_data does
\* when that call returns: a table is returned at once; after the last URL
\* format the next alternative name is read, and None is returned after the
\* last name
TryNextUrl ==
    /\ f_pc = "reading"
    /\ \E response \in Responses :
         LET df == TryUrlFormat(response)
         IN  /\ f_last' = response
             /\ f_log' = Append(f_log, <<SheetNames(f_name)[f_call], f_url>>)
             /\ f_passed' =
                   f_passed + (IF PassesEveryCheck(response) THEN 1 ELSE 0)
             /\ IF df # FetchNone
                THEN /\ f_pc' = "returned"
                     /\ f_ret' = df
                     /\ UNCHANGED <<f_call, f_url>>
                ELSE IF f_url < NumUrlFormats
                THEN /\ f_url' = f_url + 1
                     /\ UNCHANGED <<f_pc, f_ret, f_call>>
                ELSE IF f_call < Len(SheetNames(f_name))
                THEN /\ f_call' = f_call + 1
                     /\ f_url' = 1
                     /\ UNCHANGED <<f_pc, f_ret>>
                ELSE /\ f_pc' = "returned"
                     /\ f_ret' = FetchNone
                     /\ UNCHANGED <<f_call, f_url>>
    /\ UNCHANGED <<f_name, repo_vars, thread_vars>>

\* the caller has taken the result; the locals of the call are gone
FetchDone ==
    /\ f_pc = "returned"
    /\ f_pc' = "idle"
    /\ f_name' = "none"
    /\ f_call' = 0
    /\ f_url' = 0
    /\ f_ret' = FetchPending
    /\ f_log' = <<>>
    /\ f_last' = NoResponse
    /\ f_passed' = 0
    /\ UNCHANGED <<repo_vars, thread_vars>>

NextFetch ==
    \/ GetSheetData
    \/ TryNextUrl
    \/ FetchDone

SpecFetch == InitFetch /\ [][NextFetch]_vars

\* ------------------------ one ItemRepository called from several threads
\* The methods of ItemRepository take no lock.  Each action below is one
\* statement of a method: it reads self.df, or stores self.df, or writes the
\* file.  The statements of a call that touch neither are joined to the
\* next one that does.  The handlers are "async def" with no await, so the
\* event loop of the host runs a call to its end before the next starts
\* (serialized); a host that calls the repository from several threads does
\* not.

\* a call may start with the other threads in the middle of a call
MayStart_unserialized(t) == TRUE

\* a call may start on thread t
MayStart(t) == serialized => \A o \in Threads \ {t} : t_pc[o] = "idle"

\* the call of thread t returns: its locals are gone
Returns(t) ==
    /\ t_pc' = [t_pc EXCEPT ![t] = "idle"]
    /\ t_call' = [t_call EXCEPT ![t] = NoCall]
    /\ t_local' = [t_local EXCEPT ![t] = <<>>]

\* thread t goes on to the statement at label with table as its local
GoesTo(t, label, table) ==
    /\ t_pc' = [t_pc EXCEPT ![t] = label]
    /\ t_local' = [t_local EXCEPT ![t] = table]

\* the repository is constructed with remote fetching off, then serves
InitThreads ==
    /\ use_google_sheets = FALSE
    /\ pc = "serving"
    /\ items_xlsx \in {NoFile, FileOf(LocalItems)}
    /\ items_df = Item_load_data(FALSE, FetchNone, items_xlsx).df
    /\ recipe_items_df = items_df
    /\ recipes_df = <<>>
    /\ recipes_xlsx = NoFile
    /\ source = [r \in Repositories |->
                   IF r = "recipes.recipe_repo"
                   THEN Recipe_load_data(FALSE, FetchNone, recipes_xlsx).source
                   ELSE Item_load_data(FALSE, FetchNone, items_xlsx).source]
    /\ last = [op |-> "start", status |-> "none"]
    /\ FetchIdle
    /\ serialized \in BOOLEAN
    /\ ThreadsIdle
    /\ drawn = {u \in UUIDs : str(u) \in IdColumn(items_df)}

\* create: new_id = uuid4() ... pd.concat([self.df, new_row]) is evaluated
create_concat(t) ==
    /\ t_pc[t] = "idle"
    /\ MayStart(t)
    /\ Len(items_df) < MaxRows
    /\ \E item \in ItemCreate, new_id \in uuid4(items_df) \ drawn :
         /\ t_call' = [t_call EXCEPT
                          ![t] = [op |-> "create", id |-> new_id, item |-> item]]
         /\ GoesTo(t, "store", Append(items_df, ItemRow(str(new_id), item)))
         /\ drawn' = drawn \cup {new_id}
    /\ UNCHANGED <<repo_vars, fetch_vars, serialized, acked, seen>>

\* delete: "if str_id not in self.df['id'].values: return False"
delete_check(t) ==
    /\ t_pc[t] = "idle"
    /\ MayStart(t)
    /\ \E item_id \in UUIDs :
         IF str(item_id) \notin IdColumn(items_df)
         THEN Returns(t)
         ELSE /\ t_call' = [t_call EXCEPT
                 ![t] = [op |-> "delete", id |-> item_id, item |-> NoCall.item]]
              /\ GoesTo(t, "filter", <<>>)
    /\ UNCHANGED <<repo_vars, fetch_vars, serialized, acked, drawn, seen>>

\* delete: self.df[self.df['id'] != str_id] is evaluated
delete_filter(t) ==
    /\ t_pc[t] = "filter"
    /\ GoesTo(t, "store", RowsWithoutId(items_df, str(t_call[t].id)))
    /\ UNCHANGED <<repo_vars, fetch_vars, serialized, t_call, acked, drawn,
                   seen>>

\* create and delete: "self.df = ..." stores the table that was evaluated
store_df(t) ==
    /\ t_pc[t] = "store"
    /\ items_df' = t_local[t]
    /\ GoesTo(t, "copy", <<>>)
    /\ UNCHANGED <<use_google_sheets, pc, recipe_items_df, recipes_df,
                   items_xlsx, recipes_xlsx, source, last, fetch_vars,
                   serialized, t_call, acked, drawn, seen>>

\* _save_data: df_to_save = self.df.copy()
save_copy(t) ==
    /\ t_pc[t] = "copy"
    /\ GoesTo(t, "to_excel", items_df)
    /\ UNCHANGED <<repo_vars, fetch_vars, serialized, t_call, acked, drawn,
                   seen>>

\* _save_data: df_to_save.to_excel(...), and the method returns
to_excel(t) ==
    /\ t_pc[t] = "to_excel"
    /\ items_xlsx' = Item_save_data(t_local[t])
    /\ acked' = IF t_call[t].op = "create"
                THEN [acked EXCEPT !.created = @ \cup {t_call[t].id}]
                ELSE [acked EXCEPT !.deleted = @ \cup {t_call[t].id}]
    /\ Returns(t)
    /\ UNCHANGED <<use_google_sheets, pc, items_df, recipe_items_df,
                   recipes_df, recipes_xlsx, source, last, fetch_vars,
                   serialized, drawn, seen>>

\* get_all: "for _, row in self.df.iterrows()" walks the table it read
get_all_call(t) ==
    /\ t_pc[t] = "idle"
    /\ MayStart(t)
    /\ LET items == Item_get_all(items_df)
       IN  seen' = seen \cup {items[i].id : i \in 1..Len(items)}
    /\ Returns(t)
    /\ UNCHANGED <<repo_vars, fetch_vars, serialized, acked, drawn>>

\* update: returns None for an absent id and raises for a present one
update_call(t) ==
    /\ t_pc[t] = "idle"
    /\ MayStart(t)
    /\ \E item_id \in UUIDs, item \in ItemCreate :
         LET r == Item_update(items_df, items_xlsx, item_id, item)
         IN  /\ items_df' = r.df
             /\ items_xlsx' = r.file
             /\ Returns(t)
    /\ UNCHANGED <<use_google_sheets, pc, recipe_items_df, recipes_df,
                   recipes_xlsx, source, last, fetch_vars, serialized, acked,
                   drawn, seen>>

NextThreads ==
    \E t \in Threads :
        \/ create_concat(t)
        \/ delete_check(t)
        \/ delete_filter(t)
        \/ store_df(t)
        \/ save_copy(t)
        \/ to_excel(t)
        \/ get_all_call(t)
        \/ update_call(t)

SpecThreads == InitThreads /\ [][NextThreads]_vars

\* ================================================================== claims
\* the number of rows of df whose id is the text of u
RowCount(df, u) == Cardinality({i \in 1..Len(df) : df[i].id = str(u)})

\* delete(id) as the claim describes it, for the getter get and the result r
\* of the repository's delete on table df and file
DeleteContract(df, file, id, r, get(_, _)) ==
    IF get(df, id) # Absent
    THEN /\ r.ret = TRUE
         /\ get(r.df, id) = Absent
         /\ Len(r.df) = Len(df) - RowCount(df, id)
         /\ \A other \in UUIDs \ {id} : get(r.df, other) = get(df, other)
    ELSE /\ r.ret = FALSE
         /\ r.df = df
         /\ r.file = file

\* C1: in both repositories, delete(id) on a present id returns true, a
\* following get_by_id(id) returns absent and every other row is unchanged;
\* on an absent id it returns false and changes neither table nor file.
C1_Delete ==
    pc = "serving" =>
        \A id \in UUIDs :
            /\ DeleteContract(items_df, items_xlsx, id,
                              Item_delete(items_df, items_xlsx, id),
                              Item_get_by_id)
            /\ DeleteContract(recipes_df, recipes_xlsx, id,
                              Recipe_delete(recipes_df, recipes_xlsx, id),
                              Recipe_get_by_id)

\* a delete of a present id has just completed in a table that keeps a row,
\* and the other repository holds rows a delete would find absent ids among
C1_Witness ==
    /\ last = [op |-> "delete_item", status |-> OK]
    /\ Len(items_df) = 1
    /\ Len(recipes_df) = 1
    /\ items_xlsx = FileOf(items_df)

\* update(id, x) as the claim describes it, for the getter get, the entity
\* constructor entity and the result r of the repository's update
UpdateContract(df, file, id, x, r, get(_, _), entity(_, _)) ==
    IF get(df, id) = Absent
    THEN /\ r.ret = Absent
         /\ r.df = df
         /\ r.file = file
    ELSE /\ r.ret = entity(id, x)
         /\ get(r.df, id) = entity(id, x)
         /\ Len(r.df) = Len(df)
         /\ \A other \in UUIDs \ {id} : get(r.df, other) = get(df, other)

\* C2: in both repositories, update(id, x) on an absent id returns absent
\* and changes neither table nor file; on a present id it returns the
\* updated entity, the row keeps its id and has the fields x, the number of
\* rows and every other row are unchanged.
C2_Update ==
    pc = "serving" =>
        \A id \in UUIDs :
            /\ \A x \in ItemCreate :
                 UpdateContract(items_df, items_xlsx, id, x,
                                Item_update(items_df, items_xlsx, id, x),
                                Item_get_by_id, ItemOf)
            /\ \A x \in RecipeCreate :
                 UpdateContract(recipes_df, recipes_xlsx, id, x,
                                Recipe_update(recipes_df, recipes_xlsx, id, x),
                                Recipe_get_by_id, RecipeOf)

\* the ids of a table are pairwise distinct
IdsDistinct(df) == \A i, j \in 1..Len(df) : df[i].id = df[j].id => i = j

\* C3: from resolved tables with pairwise distinct ids, the ids stay pairwise
\* distinct under create, update and delete; every create returns an id that
\* was absent from the table and grows get_all() by exactly one row.
C3_UniqueIds ==
    pc = "serving" =>
        /\ IdsDistinct(items_df)
        /\ IdsDistinct(recipes_df)
        /\ \A x \in ItemCreate, new_id \in uuid4(items_df) :
             LET r == Item_create(items_df, items_xlsx, x, new_id)
             IN  /\ Item_get_by_id(items_df, r.ret.id) = Absent
                 /\ Len(Item_get_all(r.df)) = Len(Item_get_all(items_df)) + 1
                 /\ IdsDistinct(r.df)
        /\ \A x \in RecipeCreate, new_id \in uuid4(recipes_df) :
             LET r == Recipe_create(recipes_df, recipes_xlsx, x, new_id)
             IN  /\ Recipe_get_by_id(recipes_df, r.ret.id) = Absent
                 /\ Len(Recipe_get_all(r.df))
                        = Len(Recipe_get_all(recipes_df)) + 1
                 /\ IdsDistinct(r.df)
        /\ \A id \in UUIDs :
             /\ IdsDistinct(Item_delete(items_df, items_xlsx, id).df)
             /\ IdsDistinct(Recipe_delete(recipes_df, recipes_xlsx, id).df)
             /\ \A x \in ItemCreate :
                  IdsDistinct(Item_update(items_df, items_xlsx, id, x).df)
             /\ \A x \in RecipeCreate :
                  IdsDistinct(Recipe_update(recipes_df, recipes_xlsx, id, x).df)

\* a create has just completed on a table that already held a row
C3_Witness ==
    /\ last = [op |-> "create_item", status |-> OK]
    /\ Len(items_df) = 2
    /\ Len(recipes_df) = 2

\* C4: get_by_id(create(x).id) right after the create returns the fields of
\* x under the id create returned, and an entity a table holds is still
\* returned unchanged after any operation that does not update or delete
\* its id.
C4_RoundTrip ==
    pc = "serving" =>
        /\ \A x \in ItemCreate, new_id \in uuid4(items_df) :
             LET c == Item_create(items_df, items_xlsx, x, new_id)
                 got == Item_get_by_id(c.df, c.ret.id)
             IN  /\ got.id = c.ret.id
                 /\ got.name = x.name
                 /\ got.logo_url = x.logo_url
                 /\ \A u \in UUIDs :
                      Item_get_by_id(items_df, u) # Absent =>
                          Item_get_by_id(c.df, u) = Item_get_by_id(items_df, u)
        /\ \A x \in RecipeCreate, new_id \in uuid4(recipes_df) :
             LET c == Recipe_create(recipes_df, recipes_xlsx, x, new_id)
                 got == Recipe_get_by_id(c.df, c.ret.id)
             IN  /\ got.id = c.ret.id
                 /\ got.result_item_id = x.result_item_id
                 /\ got.required_items = x.required_items
                 /\ \A u \in UUIDs :
                      Recipe_get_by_id(recipes_df, u) # Absent =>
                          Recipe_get_by_id(c.df, u)
                              = Recipe_get_by_id(recipes_df, u)
        /\ \A u \in UUIDs, v \in UUIDs :
             (u # v /\ Item_get_by_id(items_df, u) # Absent) =>
                 /\ Item_get_by_id(Item_delete(items_df, items_xlsx, v).df, u)
                        = Item_get_by_id(items_df, u)
                 /\ \A x \in ItemCreate :
                      Item_get_by_id(
                          Item_update(items_df, items_xlsx, v, x).df, u)
                        = Item_get_by_id(items_df, u)
        /\ \A u \in UUIDs, v \in UUIDs :
             (u # v /\ Recipe_get_by_id(recipes_df, u) # Absent) =>
                 /\ Recipe_get_by_id(
                        Recipe_delete(recipes_df, recipes_xlsx, v).df, u)
                        = Recipe_get_by_id(recipes_df, u)
                 /\ \A x \in RecipeCreate :
                      Recipe_get_by_id(
                          Recipe_update(recipes_df, recipes_xlsx, v, x).df, u)
                        = Recipe_get_by_id(recipes_df, u)

\* an item was created and another operation on another id has followed
C4_Witness ==
    /\ last = [op |-> "delete_item", status |-> OK]
    /\ \E i \in 1..Len(items_df) : items_df[i].logo_url = ""
    /\ source["items.item_repo"] = "empty"

\* a piece of required_items resolves to an item of the table
Resolves(item_df, t) ==
    /\ ~UUIDRaises(strip(t))
    /\ Item_get_by_id(item_df, UUID(strip(t))) # Absent

\* the result item or some piece of required_items resolves to no item
Dangling(item_df, recipe) ==
    \/ Item_get_by_id(item_df, recipe.result_item_id) = Absent
    \/ \E i \in 1..Len(recipe.required_items) :
         ~Resolves(item_df, recipe.required_items[i])

\* the result item exists and some piece of required_items is no identifier
Malformed(item_df, recipe) ==
    /\ Item_get_by_id(item_df, recipe.result_item_id) # Absent
    /\ RequiredRaises(recipe.required_items)

\* the outcome r of a POST or PUT of recipe: refused with status refusal
\* and without touching the repository when a reference dangles, handed to
\* the repository otherwise
ValidationContract(recipe, r, refusal) ==
    IF Dangling(recipe_items_df, recipe)
    THEN /\ r.status = refusal
         /\ ~r.invoked
         /\ r.df = recipes_df
         /\ r.file = recipes_xlsx
    ELSE r.invoked

\* C5 as stated: a POST /recipes or PUT /recipes/{id} with a reference that
\* resolves to no item ends with 400, the repository is not invoked and
\* table and file are unchanged; otherwise the request reaches the
\* repository (create, or update-or-404).
C5_Original ==
    pc = "serving" =>
        \A recipe \in RecipeCreate :
            /\ \A new_id \in uuid4(recipes_df) :
                 ValidationContract(recipe,
                     create_recipe(recipes_df, recipes_xlsx, recipe_items_df,
                                   recipe, new_id), BadRequest)
            /\ \A id \in UUIDs :
                 ValidationContract(recipe,
                     update_recipe(recipes_df, recipes_xlsx, recipe_items_df,
                                   id, recipe), BadRequest)

\* C5 amended: as C5, but the refusal is the unhandled parse error (500)
\* instead of 400 when the result item exists and a piece of required_items
\* is no identifier; a PUT that passes validation on an absent id ends 404
\* and a POST that passes validation ends 200 with one more row.
C5_Validation ==
    pc = "serving" =>
        \A recipe \in RecipeCreate :
            LET refusal == IF Malformed(recipe_items_df, recipe)
                           THEN ServerError ELSE BadRequest
            IN  /\ \A new_id \in uuid4(recipes_df) :
                     LET r == create_recipe(recipes_df, recipes_xlsx,
                                            recipe_items_df, recipe, new_id)
                     IN  /\ ValidationContract(recipe, r, refusal)
                         /\ r.invoked =>
                              /\ r.status = OK
                              /\ Len(r.df) = Len(recipes_df) + 1
                /\ \A id \in UUIDs :
                     LET r == update_recipe(recipes_df, recipes_xlsx,
                                            recipe_items_df, id, recipe)
                     IN  /\ ValidationContract(recipe, r, refusal)
                         /\ (r.invoked /\ Recipe_get_by_id(recipes_df, id)
                                              = Absent)
                                => r.status = NotFound

\* a POST /recipes was refused with 400 although items exist, and before
\* that a recipe had been created through the handler
C5_Witness ==
    /\ last = [op |-> "create_recipe", status |-> BadRequest]
    /\ recipe_items_df # <<>>
    /\ source["recipes.recipe_repo"] = "empty"
    /\ recipes_df # <<>>

\* what the claim says a construction yields: the table df and the branch
\* src, from the fetch outcome label, the local file and the remote table
ResolvedAsClaimed(df, src, label, file, remote) ==
    IF label = "table" THEN df = remote /\ src = "remote"
    ELSE IF file.exists THEN df = file.rows /\ src = "local"
    ELSE df = <<>> /\ src = "empty"

\* C6: a construction takes the remote table when fetching is enabled and
\* the fetch returned a non-empty table, and then does not read the local
\* file; otherwise (disabled, fetch None, empty or raising) the content of
\* the local file, or the empty table when there is no file; it always
\* completes; no later operation resolves the source again.
C6_SourceResolution ==
    [][ /\ pc = "import_items" =>
             /\ ResolvedAsClaimed(items_df', source'["items.item_repo"],
                                  last'.status, items_xlsx, RemoteItems)
             /\ ~items_xlsx.exists => Item_get_all(items_df') = <<>>
                                          \/ last'.status = "table"
             /\ pc' = "import_recipes"
        /\ pc = "import_recipes" =>
             /\ ResolvedAsClaimed(recipe_items_df',
                                  source'["recipes.item_repo"],
                                  last'.status, items_xlsx, RemoteItems)
             /\ pc' = "import_recipes_2"
        /\ pc = "import_recipes_2" =>
             /\ ResolvedAsClaimed(recipes_df', source'["recipes.recipe_repo"],
                                  last'.status, recipes_xlsx, RemoteRecipes)
             /\ ~recipes_xlsx.exists => Recipe_get_all(recipes_df') = <<>>
                                            \/ last'.status = "table"
             /\ pc' = "serving"
        /\ pc # "serving" => /\ items_xlsx' = items_xlsx
                             /\ recipes_xlsx' = recipes_xlsx
        /\ pc = "serving" => source' = source /\ pc' = pc
      ]_vars

\* the three constructions have ended in the three ways: remote table,
\* local file, empty table, the last one after a fetch that raised
C6_Witness ==
    /\ pc = "serving"
    /\ last = [op |-> "RecipeRepository", status |-> "raise"]
    /\ source = [r \in Repositories |->
                   IF r = "items.item_repo" THEN "remote"
                   ELSE IF r = "recipes.item_repo" THEN "local" ELSE "empty"]

\* C7: after every completed create, update and delete the local file holds
\* the entire in-memory table, also for a table that came from the remote
\* source; the read operations change neither file nor table.
C7_FullWrite ==
    pc = "serving" =>
        /\ (last.op \in {"create_item", "update_item", "delete_item"}
               /\ last.status = OK) => items_xlsx = FileOf(items_df)
        /\ (last.op \in {"create_recipe", "update_recipe", "delete_recipe"}
               /\ last.status = OK) => recipes_xlsx = FileOf(recipes_df)
        /\ \A id \in UUIDs :
             /\ \A x \in ItemCreate :
                  LET c == create_item(items_df, items_xlsx, x, id)
                      u == update_item(items_df, items_xlsx, id, x)
                  IN  /\ c.file.exists /\ c.file.rows = c.df
                      /\ u.status = OK => u.file.exists /\ u.file.rows = u.df
             /\ \A x \in RecipeCreate :
                  LET c == create_recipe(recipes_df, recipes_xlsx,
                                         recipe_items_df, x, id)
                      u == update_recipe(recipes_df, recipes_xlsx,
                                         recipe_items_df, id, x)
                  IN  /\ c.status = OK => c.file.exists /\ c.file.rows = c.df
                      /\ u.status = OK => u.file.exists /\ u.file.rows = u.df
             /\ LET d == delete_item(items_df, items_xlsx, id)
                IN  d.status = OK => d.file.exists /\ d.file.rows = d.df
             /\ LET d == delete_recipe(recipes_df, recipes_xlsx, id)
                IN  d.status = OK => d.file.exists /\ d.file.rows = d.df
             /\ LET g == get_item(items_df, items_xlsx, id)
                IN  g.df = items_df /\ g.file = items_xlsx
             /\ LET g == get_recipe(recipes_df, recipes_xlsx, id)
                IN  g.df = recipes_df /\ g.file = recipes_xlsx
             /\ LET g == get_recipe_detailed(recipes_df, recipes_xlsx,
                                             recipe_items_df, id)
                IN  g.df = recipes_df /\ g.file = recipes_xlsx
        /\ LET g == get_all_items(items_df, items_xlsx)
           IN  g.df = items_df /\ g.file = items_xlsx
        /\ LET g == get_all_recipes(recipes_df, recipes_xlsx)
           IN  g.df = recipes_df /\ g.file = recipes_xlsx
        /\ LET g == get_all_recipes_detailed(recipes_df, recipes_xlsx,
                                             recipe_items_df)
           IN  g.df = recipes_df /\ g.file = recipes_xlsx

\* a recipe has just been created in a table that came from the remote
\* source and already held a row, while the items file was rewritten too
C7_Witness ==
    /\ last = [op |-> "create_recipe", status |-> OK]
    /\ source["recipes.recipe_repo"] = "remote"
    /\ Len(recipes_df) = 2
    /\ source["items.item_repo"] = "remote"
    /\ items_xlsx = FileOf(items_df)

\* C8: there is one item set in the process: when both item repositories
\* resolved the same source, what the /items handlers hold is what the
\* recipe handlers see.
C8_OneItemSet ==
    (pc = "serving"
        /\ source["items.item_repo"] = source["recipes.item_repo"]) =>
        \A u \in UUIDs :
            Item_get_by_id(recipe_items_df, u) = Item_get_by_id(items_df, u)

\* the elements of a sequence
Range(seq) == {seq[i] : i \in 1..Len(seq)}

\* C9: get_by_id_with_details returns absent for an absent recipe; for a
\* present recipe whose required_items all parse, the recipe's fields, the
\* item with id result_item_id of the item repository or absent, and
\* exactly the items of the item repository whose id occurs in
\* required_items.
C9_Details ==
    pc = "serving" =>
        \A id \in UUIDs :
            LET recipe == Recipe_get_by_id(recipes_df, id)
                view == Recipe_get_by_id_with_details(
                            recipes_df, recipe_items_df, id)
                items == Range(Item_get_all(recipe_items_df))
            IN  IF recipe = Absent THEN view = Absent
                ELSE ~RequiredRaises(recipe.required_items) =>
                    /\ view.id = recipe.id
                    /\ view.result_item_id = recipe.result_item_id
                    /\ view.required_items = recipe.required_items
                    /\ IF \E item \in items : item.id = recipe.result_item_id
                       THEN /\ view.result_item \in items
                            /\ view.result_item.id = recipe.result_item_id
                       ELSE view.result_item = Absent
                    /\ Range(view.required_item_details)
                         = {item \in items :
                              \E i \in 1..Len(recipe.required_items) :
                                  ~UUIDRaises(strip(recipe.required_items[i]))
                                  /\ item.id
                                       = UUID(strip(recipe.required_items[i]))}

\* the detailed view of a recipe with a dangling result item and a required
\* item that exists beside one that does not has just been served
C9_Witness ==
    /\ last = [op |-> "get_recipe_detailed", status |-> OK]
    /\ recipes_df = LocalRecipes
    /\ recipe_items_df = LocalItems

\* the GETs of fetch(sheet_name) in the order the claim fixes: every URL
\* format for the primary name, then every URL format for each alternate
AttemptOrder(sheet_name) ==
    [k \in 1..(NumUrlFormats * Len(SheetNames(sheet_name))) |->
        << SheetNames(sheet_name)[((k - 1) \div NumUrlFormats) + 1],
           ((k - 1) % NumUrlFormats) + 1 >>]

IsPrefix(a, b) == Len(a) <= Len(b) /\ \A i \in 1..Len(a) : a[i] = b[i]

\* C10: fetch makes its GETs in the fixed order, returns the table of the
\* first response that passes every check and makes no GET after it; a GET
\* that raises only fails that attempt; fetch returns absent exactly when
\* every attempt failed.
C10_FetchOrder ==
    f_pc # "idle" =>
        /\ IsPrefix(f_log, AttemptOrder(f_name))
        /\ f_passed <= 1
        /\ f_passed = 1 =>
             /\ f_pc = "returned"
             /\ PassesEveryCheck(f_last)
             /\ f_ret = FetchTable(dropna(f_last.body.rows))
        /\ f_pc = "reading" => Len(f_log) < Len(AttemptOrder(f_name))
        /\ f_pc = "returned" =>
             /\ f_ret = FetchNone <=> f_passed = 0
             /\ f_passed = 0 => f_log = AttemptOrder(f_name)

\* the fetch of "Recipes" has returned the table of the second URL format
\* of its second alternate name, after the seven GETs before it failed
C10_Witness ==
    /\ f_pc = "returned"
    /\ f_name = "Recipes"
    /\ f_ret = FetchTable(LocalItems)
    /\ Len(f_log) = 8
    /\ f_log[8] = <<"Sheet2", 2>>

\* every thread is between two calls
Quiescent == \A t \in Threads : t_pc[t] = "idle"

\* a create or a delete that returned and that the table does not show
Lost(u) ==
    \/ u \in acked.created \ acked.deleted /\ str(u) \notin IdColumn(items_df)
    \/ u \in acked.deleted /\ str(u) \in IdColumn(items_df)

\* C11: when every call on the repository runs to its end before the next
\* one starts, no create or delete that returned is lost: between calls the
\* table shows every created id that was not deleted and no deleted id, and
\* once a mutation has returned the file holds the whole table
C11_Serialized ==
    (serialized /\ Quiescent) =>
        /\ \A u \in UUIDs : ~Lost(u)
        /\ (acked.created \cup acked.deleted # {}) =>
               items_xlsx = FileOf(items_df)

\* calls interleave, two creates returned, the table and the file show only
\* one of them, and a get_all had returned the row that was lost
C11_Witness ==
    /\ ~serialized
    /\ Quiescent
    /\ Cardinality(acked.created) = 2
    /\ acked.deleted = {}
    /\ items_xlsx = FileOf(items_df)
    /\ \E u \in acked.created, v \in acked.created :
         /\ str(u) \notin IdColumn(items_df)
         /\ str(v) \in IdColumn(items_df)
         /\ u \in seen

\* C12: in every reachable state, every entity the item repositories build
\* from their table (get_all, get_by_id, get_by_ids) has an optional field
\* that is "no value" or a text that is not empty: never the empty string
C12_NoEmptyString ==
    \A df \in {items_df, recipe_items_df} :
        /\ \A i \in 1..Len(df) : Item_get_all(df)[i].logo_url # ""
        /\ \A u \in UUIDs :
             /\ Item_get_by_id(df, u) # Absent
                   => Item_get_by_id(df, u).logo_url # ""
             /\ \A i \in 1..Len(Item_get_by_ids(df, <<u>>)) :
                   Item_get_by_ids(df, <<u>>)[i].logo_url # ""

\* C13 as stated: resolving one entity type makes at most 3 + (number of
\* alternate names) GETs, 5 with the 2 alternates of "Items" and "Recipes"
C13_Original ==
    f_name # "none" =>
        Len(f_log) <= NumUrlFormats + Len(alternative_names(f_name))

\* C13: resolving one entity type makes at most 3 GETs for each of the
\* names (the primary name and its alternates), 9 with the 2 alternates of
\* "Items" and "Recipes", and none when remote fetching is disabled
C13_Attempts ==
    /\ f_name # "none" =>
          Len(f_log) <= NumUrlFormats * (1 + Len(alternative_names(f_name)))
    /\ Len(f_log) <= 9
    /\ ~use_google_sheets => (Len(f_log) = 0 /\ f_pc = "idle")

\* the remote source answered no request and the fetch gave up after its
\* ninth GET, so the local fallback is used
C13_Witness ==
    /\ use_google_sheets
    /\ f_pc = "returned"
    /\ f_ret = FetchNone
    /\ f_passed = 0
    /\ f_last.raises
    /\ Len(f_log) = 9

\* what get_by_id_with_details gives for each row of the table, in order
ViewsInOrder(df, item_df) ==
    [i \in 1..Len(df) |->
        Recipe_get_by_id_with_details(df, item_df, UUID(df[i].id))]

\* the state part of C14, for the tables the recipes router holds
DetailsContract(df, file, item_df) ==
    LET all == Recipe_get_all_with_details(df, item_df)
        views == ViewsInOrder(df, item_df)
        unparsed == {i \in 1..Len(df) : RequiredRaises(df[i].required_items)}
        r == get_all_recipes_detailed(df, file, item_df)
    IN  /\ all.raised <=> unparsed # {}
        /\ ~all.raised =>
              all.list = SelectSeq(views, LAMBDA v : v # Absent)
        /\ \A i \in unparsed : views[i] = Raised
        /\ \A u \in UUIDs :
              Recipe_get_by_id_with_details(df, item_df, u) = Raised
                 => get_recipe_detailed(df, file, item_df, u).status
                       = ServerError
        /\ r.status = (IF unparsed # {} THEN ServerError ELSE OK)
        /\ r.df = df
        /\ r.file = file

\* C14: get_all_with_details returns, in table order, the view of every
\* recipe for which get_by_id_with_details returns one, leaving out only the
\* absent ones; when the required_items of some recipe do not parse the
\* error reaches the caller of get_all_with_details and of
\* get_by_id_with_details, and a call that failed changes no table and no file
C14_AllDetails ==
    /\ [](pc = "serving" =>
             DetailsContract(recipes_df, recipes_xlsx, recipe_items_df))
    /\ [][(/\ last'.op \in {"get_all_recipes_detailed", "get_recipe_detailed"}
           /\ last'.status = ServerError)
          => UNCHANGED <<items_df, recipe_items_df, recipes_df, items_xlsx,
                         recipes_xlsx>>]_vars

\* GET /recipes/detailed has just failed on a table of two recipes, one of
\* them with required_items that do not parse
C14_Witness ==
    /\ last = [op |-> "get_all_recipes_detailed", status |-> ServerError]
    /\ Len(recipes_df) = 2
    /\ \E i, j \in 1..Len(recipes_df) :
         /\ RequiredRaises(recipes_df[i].required_items)
         /\ ~RequiredRaises(recipes_df[j].required_items)

====
